---- MODULE Spec2Model ----
(***************************************************************************)
(* A model of scripts/fetch-pdb-metadata.py (and of its near copy          *)
(* scripts/debug.py): the organism resolver with its three lookup          *)
(* strategies, the metadata extractor and the batch orchestrator.          *)
(*                                                                         *)
(* A Python str is a sequence of one-character strings, so that strip(),   *)
(* lower(), startswith() and the `in` substring test are computed and not  *)
(* assumed.  A decoded JSON document is a tagged record:                   *)
(*   [t |-> "null"], [t |-> "num", n |-> 7], [t |-> "str", s |-> chars],   *)
(*   [t |-> "list", items |-> <<...>>], [t |-> "dict", kv |-> [k |-> v]].  *)
(***************************************************************************)
EXTENDS Integers, Sequences, FiniteSets, TLC

VARIABLES
    pc,        \* position of the program that the specification runs
    answer,    \* the remote's answer to the strategy invoked last
    called,    \* the strategies get_organism_corrected has invoked, in order
    ret,       \* what each invoked strategy returned, in the same order
    organism,  \* the local `organism` of get_organism_corrected / the orchestrator
    entry,     \* the raw entry handed to extract_metadata / decoded by the orchestrator
    metadata,  \* what extract_metadata returned
    variant,   \* "main" (fetch-pdb-metadata.py) or "debug" (debug.py)
    pdb_ids,   \* the identifier sequence given to fetch_detailed_metadata
    i,         \* index of the identifier being processed (1-based)
    results,   \* the orchestrator's `results` list
    trace,     \* the entry fetches and pacing sleeps performed, in order
    outcome,   \* per identifier processed so far: what happened to it
    target_count,  \* main's `target_count`
    start,         \* the page offset of main's pagination loop
    batch_ids,     \* what fetch_pdb_batch returned for the page requested last
    all_pdb_ids    \* main's `all_pdb_ids`

\* The locals of main's pagination
lister == <<target_count, start, batch_ids, all_pdb_ids>>

vars == <<pc, answer, called, ret, organism, entry, metadata,
          variant, pdb_ids, i, results, trace, outcome, lister>>

----------------------------------------------------------------------------
(* Python str operations used by the scripts *)

LowerChar(c) ==
    CASE c = "A" -> "a" [] c = "B" -> "b" [] c = "C" -> "c" [] c = "D" -> "d"
      [] c = "E" -> "e" [] c = "F" -> "f" [] c = "G" -> "g" [] c = "H" -> "h"
      [] c = "I" -> "i" [] c = "J" -> "j" [] c = "K" -> "k" [] c = "L" -> "l"
      [] c = "M" -> "m" [] c = "N" -> "n" [] c = "O" -> "o" [] c = "P" -> "p"
      [] c = "Q" -> "q" [] c = "R" -> "r" [] c = "S" -> "s" [] c = "T" -> "t"
      [] c = "U" -> "u" [] c = "V" -> "v" [] c = "W" -> "w" [] c = "X" -> "x"
      [] c = "Y" -> "y" [] c = "Z" -> "z" [] OTHER -> c

lower(s) == [k \in 1..Len(s) |-> LowerChar(s[k])]

IsSpace(c) == c \in {" ", "\t", "\n"}

RECURSIVE lstrip(_)
lstrip(s) == IF s # <<>> /\ IsSpace(Head(s)) THEN lstrip(Tail(s)) ELSE s

RECURSIVE rstrip(_)
rstrip(s) ==
    IF s # <<>> /\ IsSpace(s[Len(s)]) THEN rstrip(SubSeq(s, 1, Len(s) - 1)) ELSE s

strip(s) == rstrip(lstrip(s))

startswith(s, prefix) ==
    Len(s) >= Len(prefix) /\ SubSeq(s, 1, Len(prefix)) = prefix

\* Python's `sub in s` on two strings
contains(s, sub) ==
    \E k \in 1..(Len(s) - Len(sub) + 1) : SubSeq(s, k, k + Len(sub) - 1) = sub

----------------------------------------------------------------------------
(* JSON values and Python's view of them *)

Null == [t |-> "null"]
Num(n) == [t |-> "num", n |-> n]
Str(s) == [t |-> "str", s |-> s]
List(items) == [t |-> "list", items |-> items]
Dict(kv) == [t |-> "dict", kv |-> kv]
EmptyDict == Dict([k \in {} |-> Null])

\* bool(v): None, 0, "", [] and {} are falsy
Truthy(v) ==
    CASE v.t = "null" -> FALSE
      [] v.t = "num"  -> v.n # 0
      [] v.t = "str"  -> v.s # <<>>
      [] v.t = "list" -> v.items # <<>>
      [] v.t = "dict" -> DOMAIN v.kv # {}

\* `key in v` for a dict v
Has(v, key) == v.t = "dict" /\ key \in DOMAIN v.kv

\* dict.get(key, default)
DictGet(v, key, default) == IF key \in DOMAIN v.kv THEN v.kv[key] ELSE default

(* The sentinel and the strings of the acceptance rules *)
Unknown == <<"U", "n", "k", "n", "o", "w", "n">>
JPrefix == <<"j", " ">>
JournalDenylist ==
    << <<"j", " ", "m", "o", "l">>,
       <<"n", "a", "t", "u", "r", "e">>,
       <<"s", "c", "i", "e", "n", "c", "e">>,
       <<"p", "r", "o", "c", " ", "n", "a", "t", "l">> >>

(* A called function either returns a value or raises an exception *)
Returned(v) == [raised |-> FALSE, v |-> v]
Raised(kind) == [raised |-> TRUE, kind |-> kind]

\* A handler that names only the two exception classes of the orchestrator
ExceptRequestOrDecode(kind) == kind \in {"RequestException", "JSONDecodeError"}

\* `except Exception`: every exception the scripts can meet is an Exception
ExceptException(kind) ==
    kind \in {"RequestException", "JSONDecodeError", "TypeError", "KeyError",
              "AttributeError", "IndexError"}

(* An HTTP exchange: the transport fails (requests raises), or a response  *)
(* arrives with a status code and a body that decodes to JSON or does not. *)
TransportError == [net |-> "error", status |-> 0, decodes |-> FALSE, json |-> Null]
Undecodable(status) == [net |-> "ok", status |-> status, decodes |-> FALSE, json |-> Null]
Response(status, json) == [net |-> "ok", status |-> status, decodes |-> TRUE, json |-> json]

----------------------------------------------------------------------------
(* get_nested_value: the path is a sequence of Key("name") and Idx(0) *)

Key(k) == [t |-> "key", k |-> k]
Idx(n) == [t |-> "idx", n |-> n]

RECURSIVE get_nested_value(_, _)
get_nested_value(data, path) ==
    IF path = <<>> THEN data
    ELSE LET key == Head(path) IN
         IF key.t = "idx"
         THEN IF data.t = "list" /\ Len(data.items) > key.n
              THEN get_nested_value(data.items[key.n + 1], Tail(path))
              ELSE Null
         ELSE IF data.t = "dict" /\ key.k \in DOMAIN data.kv
              THEN get_nested_value(data.kv[key.k], Tail(path))
              ELSE Null

----------------------------------------------------------------------------
(* Strategy 1: try_corrected_graphql *)

\* The priority list with the natural-source and expression-host pairs exchanged
organism_sources_gen_first ==
    << <<"rcsb_entity_source_organism", "ncbi_scientific_name">>,
       <<"rcsb_entity_source_organism", "scientific_name">>,
       <<"entity_src_gen", "pdbx_host_org_scientific_name">>,
       <<"entity_src_nat", "pdbx_organism_scientific">>,
       <<"rcsb_entity_host_organism", "ncbi_scientific_name">>,
       <<"rcsb_entity_host_organism", "scientific_name">> >>

organism_sources ==
    << <<"rcsb_entity_source_organism", "ncbi_scientific_name">>,
       <<"rcsb_entity_source_organism", "scientific_name">>,
       <<"entity_src_nat", "pdbx_organism_scientific">>,
       <<"entity_src_gen", "pdbx_host_org_scientific_name">>,
       <<"rcsb_entity_host_organism", "ncbi_scientific_name">>,
       <<"rcsb_entity_host_organism", "scientific_name">> >>

\* Variants of the acceptance test of strategy 1: without the journal guard,
\* and with the substring denylist of strategies 2 and 3 in its place
graphql_accepts_unguarded(s) == strip(s) # <<>>
graphql_accepts_denylist(s) ==
    strip(s) # <<>>
    /\ \A j \in 1..Len(JournalDenylist) : ~contains(lower(s), JournalDenylist[j])

\* `organism.strip() and not organism.lower().startswith('j ')` for a truthy str:
\* the prefix test reads the string as received, not the stripped one
graphql_accepts(s) == strip(s) # <<>> /\ ~startswith(lower(s), JPrefix)

\* what `return organism.strip()` hands back for an accepted str
graphql_value(s) == strip(s)

\* The body of the inner loop for one entity and one (source_key, name_key):
\* it returns a value, raises, or falls through to the next pair.
graphql_probe(entity, pair) ==
    LET source_key == pair[1]
        name_key == pair[2]
    IN  IF entity.t # "dict"
        THEN [k |-> "raise", kind |-> "TypeError"]  \* `source_key in None`
        ELSE IF ~(Has(entity, source_key) /\ Truthy(entity.kv[source_key]))
        THEN [k |-> "next"]
        ELSE LET given == entity.kv[source_key]
                 source_data == IF given.t = "list" /\ Len(given.items) > 0
                                THEN given.items[1]
                                ELSE given
             IN  IF ~(source_data.t = "dict" /\ name_key \in DOMAIN source_data.kv)
                 THEN [k |-> "next"]
                 ELSE LET org == source_data.kv[name_key]
                      IN  IF ~Truthy(org)
                          THEN [k |-> "next"]
                          ELSE IF org.t # "str"
                          THEN [k |-> "raise", kind |-> "AttributeError"]  \* no .strip
                          ELSE IF graphql_accepts(org.s)
                          THEN [k |-> "return", v |-> graphql_value(org.s)]
                          ELSE [k |-> "next"]

\* `for entity in entities: for source_key, name_key in organism_sources:`
\* from entity e (outer loop) and pair p (inner loop) on
RECURSIVE graphql_scan(_, _, _)
graphql_scan(entities, e, p) ==
    IF e > Len(entities) THEN Returned(Unknown)
    ELSE IF p > Len(organism_sources) THEN graphql_scan(entities, e + 1, 1)
    ELSE LET r == graphql_probe(entities[e], organism_sources[p])
         IN  CASE r.k = "raise"  -> Raised(r.kind)
               [] r.k = "return" -> Returned(r.v)
               [] r.k = "next"   -> graphql_scan(entities, e, p + 1)

\* The try block of try_corrected_graphql. Response bodies are taken to be a
\* dict, null or a number at each level where the code subscripts them.
graphql_try(resp) ==
    IF resp.net = "error" THEN Raised("RequestException")
    ELSE IF resp.status # 200 THEN Returned(Unknown)
    ELSE IF ~resp.decodes THEN Raised("JSONDecodeError")
    ELSE LET data == resp.json
         IN  IF data.t # "dict" THEN Raised("TypeError")   \* 'errors' in None
             ELSE IF Has(data, "errors") THEN Returned(Unknown)
             ELSE IF ~(Has(data, "data") /\ Truthy(data.kv["data"]))
             THEN Returned(Unknown)
             ELSE LET d == data.kv["data"]
                  IN  IF d.t # "dict" THEN Raised("TypeError")
                      ELSE IF ~Has(d, "entry") THEN Raised("KeyError")
                      ELSE IF ~Truthy(d.kv["entry"]) THEN Returned(Unknown)
                      ELSE LET en == d.kv["entry"]
                           IN  IF en.t # "dict" THEN Raised("TypeError")
                               ELSE IF ~Has(en, "polymer_entities")
                               THEN Raised("KeyError")
                               ELSE LET entities == en.kv["polymer_entities"]
                                    IN  IF ~Truthy(entities) THEN Returned(Unknown)
                                        ELSE IF entities.t # "list" THEN Raised("TypeError")
                                        ELSE graphql_scan(entities.items, 1, 1)

\* `except Exception: pass` and the final `return "Unknown"`
try_corrected_graphql(resp) ==
    LET r == graphql_try(resp)
    IN  IF r.raised /\ ExceptException(r.kind) THEN Returned(Unknown) ELSE r

----------------------------------------------------------------------------
(* Strategies 2 and 3: try_rest_entities and try_entry_rest *)

organism_paths_entities ==
    << <<Key("rcsb_entity_source_organism"), Idx(0), Key("ncbi_scientific_name")>>,
       <<Key("rcsb_entity_source_organism"), Idx(0), Key("scientific_name")>>,
       <<Key("entity_src_gen"), Idx(0), Key("pdbx_host_org_scientific_name")>>,
       <<Key("entity_src_nat"), Idx(0), Key("pdbx_organism_scientific")>>,
       <<Key("rcsb_entity_host_organism"), Idx(0), Key("ncbi_scientific_name")>> >>

organism_paths_entry ==
    << <<Key("rcsb_entry_info"), Key("source_organism_names"), Idx(0)>>,
       <<Key("rcsb_entry_info"), Key("polymer_composition"),
         Key("source_organism_names"), Idx(0)>> >>

\* `not any(journal in organism.lower() for journal in [...])`
not_journal(s) ==
    \A j \in 1..Len(JournalDenylist) : ~contains(lower(s), JournalDenylist[j])

\* `organism and isinstance(organism, str) and organism.strip()` and the
\* journal test nested in it
rest_accepts(org) ==
    Truthy(org) /\ org.t = "str" /\ strip(org.s) # <<>> /\ not_journal(org.s)

\* `for path in organism_paths:` over one document, from path p on
RECURSIVE probe_paths(_, _, _)
probe_paths(data, paths, p) ==
    IF p > Len(paths) THEN [found |-> FALSE]
    ELSE LET org == get_nested_value(data, paths[p])
         IN  IF rest_accepts(org)
             THEN [found |-> TRUE, v |-> strip(org.s)]
             ELSE probe_paths(data, paths, p + 1)

\* `for entity in entities: if isinstance(entity, dict):` from entity e on
RECURSIVE rest_scan(_, _)
rest_scan(entities, e) ==
    IF e > Len(entities) THEN Unknown
    ELSE IF entities[e].t # "dict" THEN rest_scan(entities, e + 1)
    ELSE LET r == probe_paths(entities[e], organism_paths_entities, 1)
         IN  IF r.found THEN r.v ELSE rest_scan(entities, e + 1)

\* The try block of try_rest_entities
rest_entities_try(resp) ==
    IF resp.net = "error" THEN Raised("RequestException")
    ELSE IF resp.status # 200 THEN Returned(Unknown)
    ELSE IF ~resp.decodes THEN Raised("JSONDecodeError")
    ELSE LET entities == IF resp.json.t = "list" THEN resp.json.items
                         ELSE <<resp.json>>
         IN  Returned(rest_scan(entities, 1))

try_rest_entities(resp) ==
    LET r == rest_entities_try(resp)
    IN  IF r.raised /\ ExceptException(r.kind) THEN Returned(Unknown) ELSE r

\* The try block of try_entry_rest
entry_rest_try(resp) ==
    IF resp.net = "error" THEN Raised("RequestException")
    ELSE IF resp.status # 200 THEN Returned(Unknown)
    ELSE IF ~resp.decodes THEN Raised("JSONDecodeError")
    ELSE LET r == probe_paths(resp.json, organism_paths_entry, 1)
         IN  Returned(IF r.found THEN r.v ELSE Unknown)

try_entry_rest(resp) ==
    LET r == entry_rest_try(resp)
    IN  IF r.raised /\ ExceptException(r.kind) THEN Returned(Unknown) ELSE r

----------------------------------------------------------------------------
(* get_organism_corrected: the chain of the three strategies *)

\* `if organism != "Unknown": return organism` after each strategy
found(org) == org # Unknown

\* A chain that tries the next strategy whatever the previous one returned
after_method_no_short_circuit(n, org) ==
    CASE n = 1 -> "method2"
      [] n = 2 -> "method3"
      [] n = 3 -> "return"

\* Where get_organism_corrected goes after strategy n returned org
after_method(n, org) ==
    IF found(org) THEN "return"
    ELSE CASE n = 1 -> "method2"
           [] n = 2 -> "method3"
           [] n = 3 -> "return"

\* The whole call, given what each endpoint would answer if it were asked;
\* there is no try in get_organism_corrected: what a strategy raises leaves it
get_organism_corrected(a1, a2, a3) ==
    LET o1 == try_corrected_graphql(a1)
        o2 == try_rest_entities(a2)
        o3 == try_entry_rest(a3)
    IN  IF o1.raised \/ after_method(1, o1.v) = "return" THEN o1
        ELSE IF o2.raised \/ after_method(2, o2.v) = "return" THEN o2
        ELSE IF o3.raised \/ found(o3.v) THEN o3
        ELSE Returned(Unknown)

----------------------------------------------------------------------------
(* The remote behaviours the resolver is run against *)

MaxEntities == 2

Homo == <<"H", "o", "m", "o", " ", "s", "a", "p", "i", "e", "n", "s">>
HomoPadded == <<" ", "H", "o", "m", "o", " ", "s", "a", "p", "i", "e", "n", "s", " ">>
Mus == <<"M", "u", "s", " ", "m", "u", "s", "c", "u", "l", "u", "s">>
Yeast == <<"Y", "e", "a", "s", "t">>
JMolBiol == <<"J", " ", "M", "o", "l", " ", "B", "i", "o", "l">>
jStructBiol == <<"j", " ", "s", "t", "r", "u", "c", "t", " ", "b", "i", "o", "l">>
JMolBiolPadded == <<" ", "J", " ", "M", "o", "l", " ", "B", "i", "o", "l">>
JournalNature ==
    <<"J", "o", "u", "r", "n", "a", "l", " ", "o", "f", " ", "N", "a", "t", "u", "r",
      "e", " ", "S", "t", "u", "d", "i", "e", "s">>
ProcNatl == <<"P", "r", "o", "c", " ", "N", "a", "t", "l", " ", "A", "c", "a", "d">>
Blank == <<" ", " ">>

\* The six (group, field) pairs of a sub-unit, in the order the design lists them
PriorityPairs ==
    << <<"rcsb_entity_source_organism", "ncbi_scientific_name">>,
       <<"rcsb_entity_source_organism", "scientific_name">>,
       <<"entity_src_nat", "pdbx_organism_scientific">>,
       <<"entity_src_gen", "pdbx_host_org_scientific_name">>,
       <<"rcsb_entity_host_organism", "ncbi_scientific_name">>,
       <<"rcsb_entity_host_organism", "scientific_name">> >>

\* An entity whose group of pair p is a one-element list holding field of pair p
Slot(p, v) ==
    Dict(PriorityPairs[p][1] :> List(<<Dict(PriorityPairs[p][2] :> v)>>))

\* An entity with the fields of pairs p and q populated
TwoSlot(p, v, q, w) ==
    IF PriorityPairs[p][1] = PriorityPairs[q][1]
    THEN Dict(PriorityPairs[p][1] :>
              List(<<Dict(PriorityPairs[p][2] :> v @@ PriorityPairs[q][2] :> w)>>))
    ELSE Dict(PriorityPairs[p][1] :> List(<<Dict(PriorityPairs[p][2] :> v)>>)
              @@ PriorityPairs[q][1] :> List(<<Dict(PriorityPairs[q][2] :> w)>>))

CandidateValues ==
    { Str(<<>>), Str(Blank), Str(HomoPadded), Str(JMolBiol), Str(jStructBiol),
      Str(JMolBiolPadded), Str(JournalNature), Str(Unknown) }

GraphqlEntities ==
    { Null, Slot(6, Str(Mus)) }
    \cup { Slot(1, v) : v \in CandidateValues }
    \cup { TwoSlot(p, Str(Mus), p + 1, Str(HomoPadded)) : p \in 1..5 }
    \cup { TwoSlot(1, Str(JMolBiol), 2, Str(HomoPadded)),
           TwoSlot(1, Num(7), 3, Str(HomoPadded)),
           \* a group given as a single object
           Dict("entity_src_nat" :> Dict("pdbx_organism_scientific" :> Str(Yeast))),
           \* only the first element of a sequence is inspected
           Dict("rcsb_entity_source_organism" :>
                List(<<Dict("ncbi_scientific_name" :> Null),
                       Dict("ncbi_scientific_name" :> Str(Homo))>>)),
           Dict("rcsb_entity_source_organism" :>
                List(<<Null, Dict("ncbi_scientific_name" :> Str(Homo))>>)),
           Dict("rcsb_entity_source_organism" :> List(<<>>)) }

RECURSIVE SeqsUpTo(_, _)
SeqsUpTo(S, n) ==
    IF n = 0 THEN {<<>>}
    ELSE LET shorter == SeqsUpTo(S, n - 1)
         IN  shorter \cup { Append(q, x) : q \in shorter, x \in S }

GraphqlBody(entities) ==
    Dict("data" :> Dict("entry" :> Dict("polymer_entities" :> entities)))

GraphqlAnswers ==
    { TransportError, Undecodable(200), Response(500, Null), Response(200, Null),
      Response(200, Dict("errors" :> List(<<Str(Blank)>>))),
      Response(200, EmptyDict),
      Response(200, Dict("data" :> Null)),
      Response(200, Dict("data" :> Dict("entry" :> Null))),
      Response(200, Dict("data" :> Dict("other" :> Null))),
      Response(200, Dict("data" :> Dict("entry" :> Dict("other" :> Null)))),
      Response(200, GraphqlBody(Null)),
      Response(200, GraphqlBody(Num(7))) }
    \cup { Response(200, GraphqlBody(List(es))) : es \in SeqsUpTo(GraphqlEntities, MaxEntities) }

RestEntities ==
    { Slot(p, Str(Mus)) : p \in 1..6 }
    \cup { Slot(1, Str(HomoPadded)), Slot(1, Str(JournalNature)), Slot(2, Str(ProcNatl)),
           Slot(1, Str(JMolBiol)), Slot(1, Str(Unknown)), Slot(1, Str(Blank)),
           TwoSlot(1, Num(7), 2, Str(Homo)),
           TwoSlot(3, Str(Homo), 4, Str(Mus)),
           Dict("entity_src_nat" :> Dict("pdbx_organism_scientific" :> Str(Yeast))) }

RestEntitiesAnswers ==
    { TransportError, Undecodable(200), Response(404, Null), Response(200, Null),
      Response(200, List(<<>>)),
      Response(200, List(<<Null, Slot(2, Str(Homo))>>)),
      Response(200, List(<<Slot(1, Str(JournalNature)), Slot(2, Str(Homo))>>)) }
    \cup { Response(200, Slot(1, Str(HomoPadded))), Response(200, Slot(1, Str(JournalNature))) }
    \cup { Response(200, List(<<e>>)) : e \in RestEntities }

EntryInfo(kv) == Dict("rcsb_entry_info" :> Dict(kv))

EntryAnswers ==
    { TransportError, Undecodable(200), Response(500, Null), Response(200, Null),
      Response(200, EmptyDict),
      Response(200, Dict("rcsb_entry_info" :> Null)),
      Response(200, EntryInfo("source_organism_names" :> List(<<>>))),
      Response(200, EntryInfo("source_organism_names" :> Str(Homo))),
      Response(200, EntryInfo("source_organism_names" :> List(<<Str(JournalNature)>>)
                              @@ "polymer_composition" :>
                                 Dict("source_organism_names" :> List(<<Str(Mus)>>)))) }
    \cup { Response(200, EntryInfo("source_organism_names" :> List(<<v>>))) :
             v \in {Str(HomoPadded), Str(JournalNature), Str(Unknown), Num(7), Null} }
    \cup { Response(200, EntryInfo("polymer_composition" :>
                                   Dict("source_organism_names" :> List(<<v>>)))) :
             v \in {Str(HomoPadded), Str(ProcNatl)} }

NoAnswer == [net |-> "none", status |-> 0, decodes |-> FALSE, json |-> Null]

----------------------------------------------------------------------------
(* Spec: one call of get_organism_corrected, one step per strategy invoked *)

Init ==
    /\ pc = "method1"
    /\ answer = NoAnswer
    /\ called = <<>> /\ ret = <<>>
    /\ organism = <<>>
    /\ entry = Null /\ metadata = Null
    /\ variant = "main" /\ pdb_ids = <<>> /\ i = 0
    /\ results = <<>> /\ trace = <<>> /\ outcome = <<>>
    /\ target_count = 0 /\ start = 0 /\ batch_ids = <<>> /\ all_pdb_ids = <<>>

Method1 ==
    /\ pc = "method1"
    /\ \E a \in GraphqlAnswers :
         LET r == try_corrected_graphql(a)
         IN  /\ answer' = a
             /\ organism' = IF r.raised THEN organism ELSE r.v
             /\ ret' = IF r.raised THEN ret ELSE Append(ret, r.v)
             /\ pc' = IF r.raised THEN "raised" ELSE after_method(1, r.v)
    /\ called' = Append(called, 1)
    /\ UNCHANGED lister
    /\ UNCHANGED <<entry, metadata, variant, pdb_ids, i, results,
                   trace, outcome>>

Method2 ==
    /\ pc = "method2"
    /\ \E a \in RestEntitiesAnswers :
         LET r == try_rest_entities(a)
         IN  /\ answer' = a
             /\ organism' = IF r.raised THEN organism ELSE r.v
             /\ ret' = IF r.raised THEN ret ELSE Append(ret, r.v)
             /\ pc' = IF r.raised THEN "raised" ELSE after_method(2, r.v)
    /\ called' = Append(called, 2)
    /\ UNCHANGED lister
    /\ UNCHANGED <<entry, metadata, variant, pdb_ids, i, results,
                   trace, outcome>>

Method3 ==
    /\ pc = "method3"
    /\ \E a \in EntryAnswers :
         LET r == try_entry_rest(a)
         IN  /\ answer' = a
             /\ organism' = IF r.raised THEN organism ELSE r.v
             /\ ret' = IF r.raised THEN ret ELSE Append(ret, r.v)
             /\ pc' = IF r.raised THEN "raised" ELSE after_method(3, r.v)
    /\ called' = Append(called, 3)
    /\ UNCHANGED lister
    /\ UNCHANGED <<entry, metadata, variant, pdb_ids, i, results,
                   trace, outcome>>

Next == Method1 \/ Method2 \/ Method3

Spec == Init /\ [][Next]_vars

----------------------------------------------------------------------------
(* extract_metadata (extract_metadata_fixed in debug.py is the same code) *)

UnknownProtein ==
    <<"U", "n", "k", "n", "o", "w", "n", " ", "P", "r", "o", "t", "e", "i", "n">>

\* `entry.get(group, {}).get(field, default)`: the second get needs a dict
get_get(e, group, field, default) ==
    LET g == DictGet(e, group, EmptyDict)
    IN  IF g.t # "dict" THEN Raised("AttributeError")
        ELSE Returned(DictGet(g, field, default))

\* `v[0]`
first_item(v) ==
    CASE v.t = "list" -> IF v.items = <<>> THEN Raised("IndexError")
                         ELSE Returned(v.items[1])
      [] v.t = "str"  -> IF v.s = <<>> THEN Raised("IndexError")
                         ELSE Returned(Str(<<v.s[1]>>))
      [] v.t = "dict" -> Raised("KeyError")
      [] OTHER        -> Raised("TypeError")

\* `s.split(',')`
RECURSIVE split(_)
split(s) ==
    IF \A k \in 1..Len(s) : s[k] # "," THEN <<s>>
    ELSE LET k == CHOOSE n \in 1..Len(s) :
                      s[n] = "," /\ \A m \in 1..(n - 1) : s[m] # ","
         IN  <<SubSeq(s, 1, k - 1)>> \o split(SubSeq(s, k + 1, Len(s)))

\* `[kw.strip() for kw in ....split(',')]`
keywords_of(s) == LET parts == split(s) IN [k \in 1..Len(parts) |-> Str(strip(parts[k]))]

\* `[author.get('name', '') for author in entry['audit_author']]`
authors_of(a) ==
    IF a.t # "list" THEN Raised("AttributeError")
    ELSE IF \E k \in 1..Len(a.items) : a.items[k].t # "dict"
    THEN Raised("AttributeError")
    ELSE Returned([k \in 1..Len(a.items) |-> DictGet(a.items[k], "name", Str(<<>>))])

\* `entry.get('exptl', [{}])[0].get('method', 'Unknown')`
method_of(e) ==
    LET x == first_item(DictGet(e, "exptl", List(<<EmptyDict>>)))
    IN  IF x.raised THEN x
        ELSE IF x.v.t # "dict" THEN Raised("AttributeError")
        ELSE Returned(DictGet(x.v, "method", Str(Unknown)))

\* `entry.get('rcsb_entry_info', {}).get('resolution_combined', [None])[0]`
resolution_of(e) ==
    LET x == get_get(e, "rcsb_entry_info", "resolution_combined", List(<<Null>>))
    IN  IF x.raised THEN x ELSE first_item(x.v)

\* The try block of extract_metadata, statement by statement; e is a dict
extract_try(e, org) ==
    LET title == get_get(e, "struct", "title", Null)
        cite == get_get(e, "rcsb_primary_citation", "title", Null)
        kw == get_get(e, "struct_keywords", "pdbx_keywords", Null)
        au == DictGet(e, "audit_author", Null)
        authors == IF Truthy(au) THEN authors_of(au) ELSE Returned(<<>>)
        resolution == resolution_of(e)
        method == method_of(e)
        release == get_get(e, "rcsb_accession_info", "initial_release_date", Null)
        stitle == get_get(e, "struct", "title", Str(<<>>))
        weight == get_get(e, "rcsb_entry_info", "molecular_weight", Null)
        class == get_get(e, "struct_keywords", "pdbx_keywords", Str(<<>>))
    IN  IF title.raised THEN title
        ELSE IF ~Truthy(title.v) /\ cite.raised THEN cite
        ELSE IF kw.raised THEN kw
        ELSE IF Truthy(kw.v) /\ kw.v.t # "str" THEN Raised("AttributeError")
        ELSE IF authors.raised THEN authors
        ELSE IF "rcsb_id" \notin DOMAIN e.kv THEN Raised("KeyError")
        ELSE IF resolution.raised THEN resolution
        ELSE IF method.raised THEN method
        ELSE IF release.raised THEN release
        ELSE IF weight.raised THEN weight
        ELSE Returned(Dict(
            [ pdb_id |-> e.kv["rcsb_id"],
              protein_name |-> IF Truthy(title.v) THEN title.v
                               ELSE IF Truthy(cite.v) THEN cite.v
                               ELSE Str(UnknownProtein),
              organism |-> Str(org),
              resolution |-> resolution.v,
              method |-> method.v,
              release_date |-> release.v,
              structure_title |-> stitle.v,
              molecular_weight |-> weight.v,
              keywords |-> List(IF Truthy(kw.v) THEN keywords_of(kw.v.s) ELSE <<>>),
              classification |-> class.v,
              authors |-> List(authors.v) ]))

\* `except Exception as e: print(...); return None`
extract_metadata(e, org) ==
    LET r == extract_try(e, org)
    IN  IF r.raised /\ ExceptException(r.kind) THEN Returned(Null) ELSE r

----------------------------------------------------------------------------
(* The raw entries the extractor is run against *)

Id1 == <<"1", "A", "B", "C">>
Id2 == <<"2", "X", "Y", "Z">>
TestProtein == <<"T", "e", "s", "t", " ", "P", "r", "o", "t", "e", "i", "n">>
Paper == <<"P", "a", "p", "e", "r">>
XRay == <<"X", "-", "R", "A", "Y">>
Keywords == <<"H", "Y", "D", ",", " ", "E", "N", "Z", " ", ",", " ", "T">>
Author == <<"A", ".", "B", ".">>
Date == <<"2", "0", "2", "0">>

\* The fixture of the design's end-to-end scenario, without its identifier
Fixture ==
    "struct" :> Dict("title" :> Str(TestProtein))
    @@ "exptl" :> List(<<Dict("method" :> Str(XRay))>>)

Without(kv, key) == [k \in DOMAIN kv \ {key} |-> kv[k]]

\* One optional group of the fixture replaced or added
Overrides ==
    { "struct" :> Null, "struct" :> EmptyDict,
      "struct" :> Dict("title" :> Null), "struct" :> Dict("title" :> Str(<<>>)),
      "struct" :> EmptyDict @@ "rcsb_primary_citation" :> Dict("title" :> Str(Paper)),
      "rcsb_primary_citation" :> Null,
      "exptl" :> Null, "exptl" :> List(<<>>), "exptl" :> List(<<EmptyDict>>),
      "exptl" :> List(<<Dict("method" :> Null)>>), "exptl" :> List(<<Null>>),
      "rcsb_entry_info" :> Null, "rcsb_entry_info" :> EmptyDict,
      "rcsb_entry_info" :> Dict("resolution_combined" :> List(<<>>)),
      "rcsb_entry_info" :> Dict("resolution_combined" :> Null),
      "rcsb_entry_info" :> Dict("resolution_combined" :> List(<<Num(2), Num(3)>>)
                                @@ "molecular_weight" :> Num(14)),
      "struct_keywords" :> Null, "struct_keywords" :> EmptyDict,
      "struct_keywords" :> Dict("pdbx_keywords" :> Null),
      "struct_keywords" :> Dict("pdbx_keywords" :> Str(<<>>)),
      "struct_keywords" :> Dict("pdbx_keywords" :> Str(Keywords)),
      "struct_keywords" :> Dict("pdbx_keywords" :> Num(7)),
      "audit_author" :> Null, "audit_author" :> List(<<>>),
      "audit_author" :> List(<<Dict("name" :> Str(Author)), EmptyDict>>),
      "audit_author" :> List(<<Null>>),
      "rcsb_accession_info" :> Null,
      "rcsb_accession_info" :> Dict("initial_release_date" :> Str(Date)) }

EntryBodies ==
    { Fixture, Without(Fixture, "struct"), Without(Fixture, "exptl"),
      [k \in {} |-> Null] }
    \cup { ov @@ Fixture : ov \in Overrides }

\* The identifier field: missing, null, empty or a code
Absent == [t |-> "absent"]
IdentifierFields == { Absent, Null, Str(<<>>), Str(Id1) }

MakeEntry(idf, body) ==
    IF idf = Absent THEN Dict(body) ELSE Dict("rcsb_id" :> idf @@ body)

RawEntries == { MakeEntry(idf, body) : idf \in IdentifierFields, body \in EntryBodies }

----------------------------------------------------------------------------
(* SpecExtract: extract_metadata applied to one raw entry *)

InitExtract ==
    /\ pc = "extract"
    /\ entry \in RawEntries
    /\ organism \in {Unknown, Homo}
    /\ metadata = Null
    /\ answer = NoAnswer /\ called = <<>> /\ ret = <<>>
    /\ variant = "main" /\ pdb_ids = <<>> /\ i = 0
    /\ results = <<>> /\ trace = <<>> /\ outcome = <<>>
    /\ target_count = 0 /\ start = 0 /\ batch_ids = <<>> /\ all_pdb_ids = <<>>

Extract ==
    /\ pc = "extract"
    /\ LET r == extract_metadata(entry, organism)
       IN  /\ metadata' = IF r.raised THEN metadata ELSE r.v
           /\ pc' = IF r.raised THEN "raised" ELSE "extracted"
    /\ UNCHANGED lister
    /\ UNCHANGED <<answer, called, ret, organism, entry, variant, pdb_ids, i,
                   results, trace, outcome>>

NextExtract == Extract

SpecExtract == InitExtract /\ [][NextExtract]_vars

----------------------------------------------------------------------------
(* fetch_detailed_metadata (variant "main") and fetch_detailed_metadata_fixed
   (variant "debug"): the loop over the identifiers *)

MaxIds == 2

\* The except clauses around one iteration of the loop
loop_catches(v, kind) ==
    IF v = "main" THEN kind \in {"RequestException", "JSONDecodeError"}
    ELSE ExceptException(kind)

\* requests.get, the status test and entry_response.json()
fetch_entry(a) ==
    IF a.net = "error" THEN Raised("RequestException")
    ELSE IF a.status # 200 THEN Returned("continue")
    ELSE IF ~a.decodes THEN Raised("JSONDecodeError")
    ELSE Returned("entry")

\* A validity test that asks only for a non-empty object: `entry`
entry_valid_unidentified(e) ==
    IF ~Truthy(e) THEN Returned(FALSE)
    ELSE IF e.t # "dict" THEN Raised("AttributeError")
    ELSE Returned(TRUE)

\* `entry and entry.get('rcsb_id')`
entry_valid(e) ==
    IF ~Truthy(e) THEN Returned(FALSE)
    ELSE IF e.t # "dict" THEN Raised("AttributeError")
    ELSE Returned(Truthy(DictGet(e, "rcsb_id", Null)))

\* What the entry endpoint may answer
BatchEntryAnswers ==
    { TransportError, Response(404, Null), Undecodable(200),
      Response(200, Null), Response(200, EmptyDict), Response(200, List(<<>>)),
      Response(200, List(<<Num(1)>>)), Response(200, Num(7)),
      Response(200, MakeEntry(Absent, Fixture)),
      Response(200, MakeEntry(Null, Fixture)),
      Response(200, MakeEntry(Str(Id1), Fixture)),
      Response(200, MakeEntry(Str(Id2), Fixture)),
      Response(200, MakeEntry(Str(Id1), "exptl" :> List(<<>>) @@ Fixture)) }

\* What the three organism endpoints may answer during a batch
BatchGraphqlAnswers ==
    { TransportError, Response(200, GraphqlBody(List(<<Slot(1, Str(HomoPadded))>>))) }
BatchRestAnswers ==
    { Response(404, Null), Response(200, List(<<Slot(1, Str(Mus))>>)) }
BatchEntryRestAnswers == { Undecodable(200) }

InitBatch ==
    /\ pc = "loop"
    /\ variant \in {"main", "debug"}
    /\ pdb_ids \in SeqsUpTo({Id1, Id2}, MaxIds)
    /\ i = 1
    /\ results = <<>> /\ trace = <<>> /\ outcome = <<>>
    /\ target_count = 0 /\ start = 0 /\ batch_ids = <<>> /\ all_pdb_ids = <<>>
    /\ entry = Null /\ organism = <<>> /\ metadata = Null
    /\ answer = NoAnswer /\ called = <<>> /\ ret = <<>>

\* The exception of kind `kind` reaches the except clauses of the loop:
\* handled, the loop goes to the next identifier; otherwise it leaves the function
Except(kind) ==
    IF loop_catches(variant, kind)
    THEN /\ outcome' = Append(outcome, kind)
         /\ i' = i + 1
         /\ pc' = "loop"
    ELSE /\ pc' = "crashed"
         /\ UNCHANGED <<outcome, i>>

\* The request for the entry of pdb_ids[i], up to `entry = entry_response.json()`
FetchEntry ==
    /\ pc = "loop" /\ i <= Len(pdb_ids)
    /\ trace' = Append(trace, "begin")
    /\ \E a \in BatchEntryAnswers :
         LET r == fetch_entry(a)
         IN  /\ answer' = a
             /\ IF r.raised
                THEN Except(r.kind) /\ UNCHANGED entry
                ELSE IF r.v = "continue"
                THEN /\ outcome' = Append(outcome, "failed")
                     /\ i' = i + 1
                     /\ pc' = "loop"
                     /\ UNCHANGED entry
                ELSE /\ entry' = a.json
                     /\ pc' = "resolve"
                     /\ UNCHANGED <<outcome, i>>
    /\ UNCHANGED lister
    /\ UNCHANGED <<called, ret, organism, metadata, variant, pdb_ids, results>>

\* `organism = get_organism_corrected(pdb_id)`
Resolve ==
    /\ pc = "resolve"
    /\ \E a1 \in BatchGraphqlAnswers, a2 \in BatchRestAnswers,
          a3 \in BatchEntryRestAnswers :
         LET r == get_organism_corrected(a1, a2, a3)
         IN  IF r.raised
             THEN Except(r.kind) /\ UNCHANGED organism
             ELSE /\ organism' = r.v
                  /\ pc' = "process"
                  /\ UNCHANGED <<outcome, i>>
    /\ UNCHANGED lister
    /\ UNCHANGED <<answer, called, ret, entry, metadata, variant, pdb_ids,
                   results, trace>>

\* The validity test, extract_metadata and results.append
Process ==
    /\ pc = "process"
    /\ LET valid == entry_valid(entry)
           m == extract_metadata(entry, organism)
       IN  IF valid.raised
           THEN Except(valid.kind) /\ UNCHANGED <<metadata, results>>
           ELSE IF ~valid.v
           THEN /\ outcome' = Append(outcome, "invalid")
                /\ pc' = "sleep"
                /\ UNCHANGED <<metadata, results, i>>
           ELSE IF m.raised
           THEN Except(m.kind) /\ UNCHANGED <<metadata, results>>
           ELSE /\ metadata' = m.v
                /\ results' = IF Truthy(m.v) THEN Append(results, m.v) ELSE results
                /\ outcome' = Append(outcome, IF Truthy(m.v) THEN "appended"
                                              ELSE "discarded")
                /\ pc' = "sleep"
                /\ UNCHANGED i
    /\ UNCHANGED lister
    /\ UNCHANGED <<answer, called, ret, organism, entry, variant, pdb_ids, trace>>

\* `time.sleep(0.3)`, the last statement of the try block
Sleep ==
    /\ pc = "sleep"
    /\ trace' = Append(trace, "sleep")
    /\ i' = i + 1
    /\ pc' = "loop"
    /\ UNCHANGED lister
    /\ UNCHANGED <<answer, called, ret, organism, entry, metadata, variant,
                   pdb_ids, results, outcome>>

\* `return results`
Return ==
    /\ pc = "loop" /\ i > Len(pdb_ids)
    /\ pc' = "done"
    /\ UNCHANGED lister
    /\ UNCHANGED <<answer, called, ret, organism, entry, metadata, variant,
                   pdb_ids, i, results, trace, outcome>>

NextBatch == FetchEntry \/ Resolve \/ Process \/ Sleep \/ Return

SpecBatch == InitBatch /\ [][NextBatch]_vars

----------------------------------------------------------------------------
(* fetch_pdb_batch and the pagination loop of main *)

batch_size == 100

min(a, b) == IF a <= b THEN a ELSE b

\* The identifiers one item of the result set contributes
item_ids(item) ==
    IF item.t = "dict" /\ "identifier" \in DOMAIN item.kv
    THEN <<item.kv["identifier"]>>
    ELSE IF item.t = "str" THEN <<item>>
    ELSE <<>>

\* `for item in result_set:` over a list, from item k on
RECURSIVE collect_ids(_, _)
collect_ids(items, k) ==
    IF k > Len(items) THEN <<>>
    ELSE item_ids(items[k]) \o collect_ids(items, k + 1)

\* The keys of a dict in some fixed order
RECURSIVE keys_of(_)
keys_of(ks) ==
    IF ks = {} THEN <<>>
    ELSE LET k == CHOOSE x \in ks : TRUE IN <<Str(<<k>>)>> \o keys_of(ks \ {k})

\* What `for item in result_set` iterates over
iterate(v) ==
    CASE v.t = "list" -> Returned(v.items)
      [] v.t = "str"  -> Returned([k \in 1..Len(v.s) |-> Str(<<v.s[k]>>)])
      [] v.t = "dict" -> Returned(keys_of(DOMAIN v.kv))
      [] OTHER        -> Raised("TypeError")

\* The try block of fetch_pdb_batch
fetch_pdb_batch_try(a) ==
    IF a.net = "error" THEN Raised("RequestException")
    ELSE IF a.status # 200 THEN Returned(<<>>)
    ELSE IF ~a.decodes THEN Raised("JSONDecodeError")
    ELSE IF a.json.t # "dict" THEN Raised("AttributeError")
    ELSE LET result_set == iterate(DictGet(a.json, "result_set", List(<<>>)))
         IN  IF result_set.raised THEN result_set
             ELSE Returned(collect_ids(result_set.v, 1))

\* `except requests.exceptions.RequestException` / `except json.JSONDecodeError`
fetch_pdb_batch(a) ==
    LET r == fetch_pdb_batch_try(a)
    IN  IF r.raised /\ r.kind \in {"RequestException", "JSONDecodeError"}
        THEN Returned(<<>>)
        ELSE r

\* A search answer with the given result set
SearchBody(items) == Response(200, Dict("result_set" :> List(items)))
Identified(id) == Dict("identifier" :> Str(id))

\* What the search endpoint may answer to one page request
MaxPage == 3

SearchItems == { Identified(Id1), Identified(Id2), Str(Id1) }

SearchAnswers ==
    { TransportError, Response(500, Null), Undecodable(200),
      Response(200, Null), Response(200, EmptyDict),
      Response(200, Dict("result_set" :> Null)),
      SearchBody(<<Num(7), Dict("score" :> Num(1))>>),
      SearchBody(<<Dict("identifier" :> Null)>>) }
    \cup { SearchBody(items) : items \in SeqsUpTo(SearchItems, MaxPage) }

\* The values of sys.argv[1] the pagination is run with
ListerTargets == 0..(MaxPage + 1) \cup {batch_size + 1, 2 * batch_size + 1}

InitLister ==
    /\ pc = "page"
    /\ target_count \in ListerTargets
    /\ start = 0
    /\ batch_ids = <<>> /\ all_pdb_ids = <<>>
    /\ variant = "main" /\ pdb_ids = <<>> /\ i = 0
    /\ results = <<>> /\ trace = <<>> /\ outcome = <<>>
    /\ entry = Null /\ organism = <<>> /\ metadata = Null
    /\ answer = NoAnswer /\ called = <<>> /\ ret = <<>>

\* One iteration of `for start in range(0, target_count, batch_size)`
FetchPage ==
    /\ pc = "page" /\ start < target_count
    /\ \E a \in SearchAnswers :
         LET rows == min(batch_size, target_count - start)
             r == fetch_pdb_batch(a)
             extended == all_pdb_ids \o r.v
         IN  /\ answer' = a
             /\ IF r.raised
                THEN /\ pc' = "crashed"
                     /\ UNCHANGED <<batch_ids, all_pdb_ids, start>>
                ELSE /\ batch_ids' = r.v
                     /\ IF r.v = <<>>
                        THEN /\ pc' = "listed"
                             /\ UNCHANGED <<all_pdb_ids, start>>
                        ELSE IF Len(extended) >= target_count
                        THEN /\ all_pdb_ids' = SubSeq(extended, 1, target_count)
                             /\ pc' = "listed"
                             /\ UNCHANGED start
                        ELSE /\ all_pdb_ids' = extended
                             /\ start' = start + batch_size
                             /\ pc' = "page"
    /\ UNCHANGED target_count
    /\ UNCHANGED <<called, ret, organism, entry, metadata, variant, pdb_ids, i,
                   results, trace, outcome>>

\* The range of the for loop is used up
PagesExhausted ==
    /\ pc = "page" /\ start >= target_count
    /\ pc' = "listed"
    /\ UNCHANGED lister
    /\ UNCHANGED <<answer, called, ret, organism, entry, metadata, variant,
                   pdb_ids, i, results, trace, outcome>>

NextLister == FetchPage \/ PagesExhausted

SpecLister == InitLister /\ [][NextLister]_vars

----------------------------------------------------------------------------
(* SpecMain: a whole run of main, from the pagination to the saved output *)

MaxTarget == 2

MainTargets == 1..MaxTarget

InitMain ==
    /\ pc = "page"
    /\ target_count \in MainTargets
    /\ start = 0
    /\ batch_ids = <<>> /\ all_pdb_ids = <<>>
    /\ variant = "main" /\ pdb_ids = <<>> /\ i = 0
    /\ results = <<>> /\ trace = <<>> /\ outcome = <<>>
    /\ entry = Null /\ organism = <<>> /\ metadata = Null
    /\ answer = NoAnswer /\ called = <<>> /\ ret = <<>>

\* `metadata_results = fetch_detailed_metadata(all_pdb_ids)`: the call
StartBatch ==
    /\ pc = "listed"
    /\ pdb_ids' = all_pdb_ids
    /\ i' = 1
    /\ results' = <<>>
    /\ pc' = "loop"
    /\ UNCHANGED lister
    /\ UNCHANGED <<answer, called, ret, organism, entry, metadata, variant,
                   trace, outcome>>

\* `json.dump(metadata_results, f, indent=2)`: the saved output is `results`
Save ==
    /\ pc = "done"
    /\ pc' = "saved"
    /\ UNCHANGED lister
    /\ UNCHANGED <<answer, called, ret, organism, entry, metadata, variant,
                   pdb_ids, i, results, trace, outcome>>

NextMain ==
    \/ FetchPage \/ PagesExhausted \/ StartBatch
    \/ FetchEntry \/ Resolve \/ Process \/ Sleep \/ Return
    \/ Save

SpecMain == InitMain /\ [][NextMain]_vars

----------------------------------------------------------------------------
(* Vocabulary of the resolver's properties: the scan of strategy 1 as the   *)
(* design describes it, written apart from the model of the code above.     *)

\* The sub-units of a structured-query answer, <<>> when it carries none
SubUnits(a) ==
    IF a.net = "ok" /\ a.status = 200 /\ a.decodes /\ a.json.t = "dict"
       /\ "errors" \notin DOMAIN a.json.kv
    THEN LET es == get_nested_value(a.json,
                       <<Key("data"), Key("entry"), Key("polymer_entities")>>)
         IN  IF es.t = "list" THEN es.items ELSE <<>>
    ELSE <<>>

\* Scan positions <<sub-unit, pair>>, and their order: sub-unit outer, pair inner
Positions(es) == { <<e, p>> : e \in 1..Len(es), p \in 1..Len(PriorityPairs) }
Earlier(x, y) == x[1] < y[1] \/ (x[1] = y[1] /\ x[2] < y[2])

\* The value position x offers: a sequence group contributes its first
\* element, a single-object group is read directly; Null when nothing is there
Offered(es, x) ==
    LET unit == es[x[1]]
        group == PriorityPairs[x[2]][1]
        field == PriorityPairs[x[2]][2]
    IN  IF unit.t # "dict" \/ group \notin DOMAIN unit.kv THEN Null
        ELSE LET g == unit.kv[group]
                 obj == IF g.t = "list"
                        THEN IF g.items = <<>> THEN Null ELSE g.items[1]
                        ELSE g
             IN  IF obj.t = "dict" /\ field \in DOMAIN obj.kv THEN obj.kv[field]
                 ELSE Null

\* What strategy 1 takes: a string, non-empty once trimmed, not starting "j "
\* as received
Accepted1(v) ==
    v.t = "str" /\ strip(v.s) # <<>> /\ ~startswith(lower(v.s), <<"j", " ">>)

\* A value on which the scan breaks off: a sub-unit that is no object, a
\* truthy field value that is no string
Malformed(es, x) ==
    es[x[1]].t # "dict" \/ (Truthy(Offered(es, x)) /\ Offered(es, x).t # "str")

\* The scan gets as far as position x
Encountered(es, x) ==
    /\ es[x[1]].t = "dict"
    /\ \A y \in Positions(es) :
         Earlier(y, x) => ~Accepted1(Offered(es, y)) /\ ~Malformed(es, y)

FirstAccepted(es) ==
    { x \in Positions(es) :
        /\ Accepted1(Offered(es, x))
        /\ \A y \in Positions(es) : Earlier(y, x) => ~Accepted1(Offered(es, y)) }

BeginsWithJ(v) ==
    v.t = "str" /\ Len(v.s) >= 2 /\ v.s[1] \in {"J", "j"} /\ v.s[2] = " "

JEncountered(es) ==
    { x \in Positions(es) : BeginsWithJ(Offered(es, x)) /\ Encountered(es, x) }

\* "Unknown", or non-empty with no whitespace at either end
TrimmedNameOrUnknown(s) ==
    s = Unknown \/ (s # <<>> /\ ~IsSpace(s[1]) /\ ~IsSpace(s[Len(s)]))

\* The strategy's remote call failed: transport, status or decoding
Failed(a) == a.net = "error" \/ a.status # 200 \/ ~a.decodes

----------------------------------------------------------------------------
(* Properties of get_organism_corrected, checked under Spec *)

\* C1: whatever the three endpoints answer, no exception leaves the resolver
\* or one of its strategies, and every value a strategy returns and the value
\* the resolver returns is "Unknown" or a non-empty string without leading or
\* trailing whitespace.
C1_NeverFailsTrimmedOrUnknown ==
    /\ pc # "raised"
    /\ \A k \in 1..Len(ret) : TrimmedNameOrUnknown(ret[k])
    /\ pc = "return" => TrimmedNameOrUnknown(organism)

\* C1 witness: all three strategies ran, the last one met a transport error,
\* and the resolver returned the sentinel.
C1_Witness ==
    pc = "return" /\ called = <<1, 2, 3>> /\ answer = TransportError
    /\ organism = Unknown

C4_AsClaimed ==
    \A k \in 1..Len(ret) :
        called[k] = 1 => ~startswith(lower(ret[k]), <<"j", " ">>)

\* C5: when strategy 1 returns a value, it is the trimmed value of the first
\* accepted candidate in scan order (sub-units in response order, the six
\* pairs in priority order within a sub-unit, first element of a sequence
\* group); and it does return that candidate whenever the scan does not break
\* off on a malformed value before reaching it.
C5_ScanOrder ==
    called = <<1>> =>
        LET es == SubUnits(answer)
        IN  /\ found(organism) =>
                 \E x \in FirstAccepted(es) : organism = strip(Offered(es, x).s)
            /\ \A x \in FirstAccepted(es) :
                 Encountered(es, x) => organism = strip(Offered(es, x).s)

\* C5 witness: the last-priority field of the first sub-unit wins over the
\* first-priority field of the second.
C5_Witness ==
    /\ called = <<1>> /\ organism = Mus
    /\ Len(SubUnits(answer)) = 2
    /\ FirstAccepted(SubUnits(answer)) = {<<1, 6>>}
    /\ Accepted1(Offered(SubUnits(answer), <<2, 1>>))

\* C6: offered "Journal of Nature Studies", strategy 1 returns it, while
\* strategies 2 and 3 return the sentinel; and no value strategies 2 and 3
\* return contains "j mol", "nature", "science" or "proc natl" in any case.
C6_DenylistAsymmetry ==
    /\ (called = <<1>>
        /\ answer = Response(200, GraphqlBody(List(<<Slot(1, Str(JournalNature))>>))))
       => (organism = JournalNature /\ pc = "return")
    /\ (called = <<1, 2>>
        /\ answer \in { Response(200, Slot(1, Str(JournalNature))),
                        Response(200, List(<<Slot(1, Str(JournalNature))>>)) })
       => (organism = Unknown /\ pc = "method3")
    /\ (called = <<1, 2, 3>>
        /\ answer = Response(200, EntryInfo("source_organism_names" :>
                                            List(<<Str(JournalNature)>>))))
       => organism = Unknown
    /\ \A k \in 2..Len(ret) :
         \A w \in { <<"j", " ", "m", "o", "l">>, <<"n", "a", "t", "u", "r", "e">>,
                    <<"s", "c", "i", "e", "n", "c", "e">>,
                    <<"p", "r", "o", "c", " ", "n", "a", "t", "l">> } :
             ~contains(lower(ret[k]), w)

\* C6 witness: strategy 2 was offered "Journal of Nature Studies" and
\* returned the sentinel.
C6_Witness ==
    /\ called = <<1, 2>> /\ organism = Unknown
    /\ answer = Response(200, List(<<Slot(1, Str(JournalNature))>>))

----------------------------------------------------------------------------
(* Properties of extract_metadata, checked under SpecExtract *)

\* The entry has an identifier field holding a non-empty value
UsableIdentifier(e) == Has(e, "rcsb_id") /\ Truthy(e.kv["rcsb_id"])

\* `e.group.field` is missing, null or empty, at either level
Lacks(e, group, field) ==
    \/ ~Has(e, group)
    \/ ~Truthy(e.kv[group])
    \/ (e.kv[group].t = "dict" /\ ~Truthy(DictGet(e.kv[group], field, Null)))

\* C7 as claimed: for a raw entry whose identifier field is missing, null or
\* empty, extraction returns absent; no record with a null or empty pdb_id is
\* ever returned.
C7_AsClaimed ==
    pc = "extracted" =>
        /\ ~UsableIdentifier(entry) => metadata = Null
        /\ metadata # Null => Truthy(metadata.kv["pdb_id"])

\* C8 as claimed: for a raw entry with a non-empty identifier, extraction
\* returns a record whatever else is missing, null or empty, and the fields
\* without a source take their defaults.
C8_AsClaimed ==
    (pc = "extracted" /\ UsableIdentifier(entry)) =>
        /\ metadata # Null
        /\ metadata.kv["pdb_id"] = entry.kv["rcsb_id"]
        /\ (Lacks(entry, "struct", "title")
            /\ Lacks(entry, "rcsb_primary_citation", "title"))
           => metadata.kv["protein_name"] = Str(UnknownProtein)
        /\ ~Truthy(DictGet(entry, "exptl", Null))
           => metadata.kv["method"] = Str(Unknown)
        /\ Lacks(entry, "rcsb_entry_info", "resolution_combined")
           => metadata.kv["resolution"] = Null
        /\ Lacks(entry, "struct_keywords", "pdbx_keywords")
           => metadata.kv["keywords"] = List(<<>>)
        /\ ~Truthy(DictGet(entry, "audit_author", Null))
           => metadata.kv["authors"] = List(<<>>)

----------------------------------------------------------------------------
(* Properties of the loop over the identifiers, checked under SpecBatch *)

\* C9 as claimed: whatever goes wrong with one identifier (transport error,
\* non-200 status, undecodable body, invalid entry, failed extraction), the
\* failure stays inside its iteration: no exception leaves the loop, and the
\* loop ends having gone through every identifier.
C9_AsClaimed ==
    /\ pc # "crashed"
    /\ pc = "done" => Len(outcome) = Len(pdb_ids)

\* C10 as claimed: after each identifier, whether it succeeded or failed, the
\* loop pauses before it begins the next one.
C10_AsClaimed ==
    \A k \in 1..(Len(trace) - 1) :
        trace[k] = "begin" => trace[k + 1] = "sleep"

----------------------------------------------------------------------------
(* Properties of the pagination, checked under SpecLister *)

\* C11 as claimed: whenever pagination ends with fewer than target_count
\* identifiers accumulated, the page requested last returned zero identifiers
\* (or failed, which fetch_pdb_batch reports as zero identifiers), also when
\* the remote returns non-empty pages shorter than the rows requested.
C11_AsClaimed ==
    (pc = "listed" /\ Len(all_pdb_ids) < target_count) => batch_ids = <<>>

----------------------------------------------------------------------------
(* Properties of the result list, checked under SpecBatch *)

\* C12: every record appended to the orchestrator's result list has a present,
\* non-empty pdb_id, whatever the identifiers and the remote's answers; an entry
\* whose identifier is missing, null or empty is discarded as invalid and
\* nothing is appended for it.
C12_RecordsIdentified ==
    /\ \A k \in 1..Len(results) :
          /\ results[k].t = "dict"
          /\ "pdb_id" \in DOMAIN results[k].kv
          /\ Truthy(results[k].kv["pdb_id"])
    /\ (pc = "sleep" /\ ~UsableIdentifier(entry))
       => outcome[Len(outcome)] = "invalid"
    /\ Len(results) = Cardinality({k \in 1..Len(outcome) : outcome[k] = "appended"})

\* A record was appended for one identifier, and the entry of a later one,
\* carrying a null identifier, has just been through the validity test
C12_Witness ==
    /\ pc = "sleep"
    /\ Has(entry, "rcsb_id") /\ entry.kv["rcsb_id"] = Null
    /\ Len(results) >= 1
    /\ outcome[Len(outcome)] = "invalid"

----------------------------------------------------------------------------
(* Properties of the saved output, checked under SpecMain *)

\* C13 as claimed: pdb_id is a unique key of the output: no two records of the
\* sequence a run writes have the same pdb_id, whatever pages the search
\* endpoint returns (repeated identifiers included) and whatever entry
\* documents the data endpoint returns.
C13_AsClaimed ==
    pc = "saved" =>
        \A j, k \in 1..Len(results) :
            j # k => results[j].kv["pdb_id"] # results[k].kv["pdb_id"]

----------------------------------------------------------------------------
(* Properties of strategy 2's probing order, checked under Spec *)

\* Strategy 1's (group, field) pairs without the last one, as paths to the
\* first element of each group
PathsOfStrategy1 ==
    [p \in 1..(Len(PriorityPairs) - 1) |->
        <<Key(PriorityPairs[p][1]), Idx(0), Key(PriorityPairs[p][2])>>]

\* The first value strategy 2's acceptance test passes, entity by entity,
\* probing the paths in strategy 1's order
RECURSIVE FirstInStrategy1Order(_, _)
FirstInStrategy1Order(entities, e) ==
    IF e > Len(entities) THEN Unknown
    ELSE IF entities[e].t # "dict" THEN FirstInStrategy1Order(entities, e + 1)
    ELSE LET r == probe_paths(entities[e], PathsOfStrategy1, 1)
         IN  IF r.found THEN r.v ELSE FirstInStrategy1Order(entities, e + 1)

\* Strategy 2 was invoked last and its endpoint answered with a document
Strategy2Answered ==
    /\ called # <<>> /\ called[Len(called)] = 2
    /\ Len(ret) = Len(called)
    /\ answer.net = "ok" /\ answer.status = 200 /\ answer.decodes

\* C14 as claimed: strategy 2 probes each entity in strategy 1's priority
\* order minus the last pair and returns the first accepted value; for an
\* entity with an acceptable src_nat organism and an acceptable src_gen host
\* name it returns the one strategy 1 would return.
C14_AsClaimed ==
    Strategy2Answered =>
        ret[Len(ret)] =
            FirstInStrategy1Order(IF answer.json.t = "list" THEN answer.json.items
                                  ELSE <<answer.json>>, 1)

====
